---- MODULE Spec2Model ----
(***************************************************************************)
(* Climate Guard Switch (Home Assistant custom component).                 *)
(*                                                                         *)
(* The guard control loop of ClimateGuardSwitch (switch.py) and of         *)
(* ClimateGuardCoordinator (coordinator.py): arm/disarm, dependency        *)
(* changes, the heartbeat timer, the run limit and the cooldown, as        *)
(* coroutines of one asyncio event loop.  A handler runs atomically up to  *)
(* an await of a command dispatch (hass.services.async_call); there it is  *)
(* parked in `inflight` and any other handler may run before it resumes.   *)
(*                                                                         *)
(* Time is counted in minutes: timedelta(minutes=m) is m units and         *)
(* timedelta(seconds=s) is s \div 60 units.                                *)
(***************************************************************************)
EXTENDS Integers, Sequences, FiniteSets, Bags, TLC

\* ----------------------------------------------------------------- bounds
\* The clock runs from 0 to MaxTime units.
MaxTime == 2
\* At most MaxInFlight handlers are parked at an await at the same time.
MaxInFlight == 2

\* --------------------------------------------------------------- variables
VARIABLES
    impl,             \* "switch" (ClimateGuardSwitch) or "coordinator"
    phase,            \* "new", "added" (listeners registered), "removed"
    config,           \* self._config: which gate entities are configured
    runtime_data,     \* the numbers the control loop reads (see RunLimit)
    now,              \* dt_util.now()
    sun,              \* hass.states.get(sun_entity)
    weather,          \* hass.states.get(weather_entity)
    guard_enabled,    \* self._guard_enabled
    target_is_active, \* self._target_is_active
    last_run_time,    \* self._last_run_time: <<>> is None, <<t>> a time
    run_start_time,   \* self._run_start_time: <<>> is None, <<t>> a time
    heartbeat,        \* self._heartbeat_remove_listener: <<>> or <<timer id>>
    timers,           \* the interval timers scheduled in hass
    cooldown_bypass,  \* self._cooldown_bypass
    block_reason,     \* self._block_reason
    inflight,         \* bag of handlers parked at an await
    last_cmd,         \* the last command dispatched to the target entity
    run_ended_at,     \* when the target last went from active to inactive
    run_by_ticket,    \* the current run began on the ticket, in the cooldown
    snapshot,         \* the status last published: <<>> or <<record>>
    cooldown_at_start,  \* the cooldown number in force when the run in
                        \* progress started; the current one while no run
                        \* is in progress
    ev                \* the step just taken: handler, position, command sent

vars == <<impl, phase, config, runtime_data, now, sun, weather,
          guard_enabled, target_is_active, last_run_time, run_start_time,
          heartbeat, timers, cooldown_bypass, block_reason, inflight, last_cmd,
          run_ended_at, run_by_ticket, snapshot, cooldown_at_start, ev>>

\* ------------------------------------------------------------ value sets
None == << >>
Some(x) == << x >>
Val(o) == o[1]

\* hass.states.get(entity).state; "none" when the state machine has no such
\* entity (hass.states.get returns None).
SunStates == {"above_horizon", "below_horizon"}
WeatherStates == {"sunny", "rainy"}

\* Values of the three numbers: run limit and cooldown in minutes, heartbeat
\* interval in seconds.
RunLimitValues == {0, 1}
CooldownValues == {0, 1}
HeartbeatValues == {0, 60}

Config(s, w, a, c) ==
    [sun_entity |-> s, weather_entity |-> w, allowed_weather |-> a,
     climate_entity |-> c]

\* The configurations explored: no gate and no thermostat; a sun gate and a
\* thermostat.
Configs ==
    {Config(FALSE, FALSE, {}, FALSE),
     Config(TRUE, FALSE, {}, TRUE)}

Numbers ==
    [run_limit : RunLimitValues, cooldown : CooldownValues,
     heartbeat_interval : HeartbeatValues]

\* timedelta(minutes=m), timedelta(seconds=s) in units of one minute.
Minutes(m) == m
Seconds(s) == s \div 60

\* Block reasons.  rem is the remaining cooldown of "Cooldown (<remaining>)".
Reason(text, state, rem) == [text |-> text, state |-> state, rem |-> rem]
NoReason == Reason("None", "", 0)
GuardDisabled == Reason("Guard Disabled", "", 0)

\* A handler parked at an await is the await it is suspended at:
\*   "start"          _start_target, the initial pulse
\*   "stop_disarmed"  _stop_target called with the guard disabled
\*   "stop_blocked"   _stop_target called with a gate blocking
\*   "stop_limit"     _stop_target called by _heartbeat_tick
\*   "tick_pulse"     _heartbeat_tick, the pulse
InFlightCount == BagCardinality(inflight)
Quiescent == inflight = EmptyBag

\* The step just taken: the trigger whose handler began ("added", "turn_on",
\* "turn_off", "dependency", "tick"), or the await a parked handler resumed
\* from, or "env"; where that handler is now ("done" when it returned); the
\* command it dispatched; and, when it performed Start, whether the bypass
\* ticket was set at that evaluation.
Event(op, park, cmd, ticket) ==
    [op |-> op, park |-> park, cmd |-> cmd, ticket |-> ticket]

\* ------------------------------------------------- the runtime numbers
\* ClimateGuardSwitch reads the shared GuardSwitchRuntimeData, which starts
\* as the config entry's values and is written by the number entities;
\* ClimateGuardCoordinator reads the config entry's values on every use.
\* runtime_data holds the values the control loop of `impl` reads.
RunLimit == Minutes(runtime_data.run_limit)

Cooldown == Minutes(runtime_data.cooldown)

HeartbeatInterval == Seconds(runtime_data.heartbeat_interval)

\* ------------------------------------------------- the controller's state
\* The fields of self that the handlers read and write, as one record.
Cur ==
    [guard |-> guard_enabled, active |-> target_is_active,
     last_run |-> last_run_time, run_start |-> run_start_time,
     hb |-> heartbeat, timers |-> timers, bypass |-> cooldown_bypass,
     reason |-> block_reason]

\* What a handler has done when it returns or parks at an await: the new
\* state, where it is parked ("done" when it returned) and the command it
\* dispatched on the way.  ticket: it performed Start with the bypass ticket
\* set.  publish: it ended by publishing the status (_update_data,
\* async_write_ha_state), which every return of _async_check_and_update does.
Outcome(r, park, cmd) ==
    [r |-> r, park |-> park, cmd |-> cmd, ticket |-> FALSE,
     publish |-> park = "done"]

\* _update_data / async_write_ha_state: the status published from state r.
Snapshot(r) == [armed |-> r.guard, active |-> r.active, reason |-> r.reason]

\* _is_cooldown_active as each implementation writes it: the coordinator
\* returns False at once for a zero cooldown, the switch entity has no such
\* test.
IsCooldownActiveOf(i, r) ==
    IF i = "coordinator" /\ Cooldown = 0 THEN FALSE
    ELSE IF r.last_run = None THEN FALSE
    ELSE now - Val(r.last_run) < Cooldown

\* Mutant of IsCooldownActive: the comparison is not strict.
IsCooldownActive_Inclusive(r) ==
    IF impl = "coordinator" /\ Cooldown = 0 THEN FALSE
    ELSE IF r.last_run = None THEN FALSE
    ELSE now - Val(r.last_run) <= Cooldown

\* Mutant of IsCooldownActive: the cooldown is never reported active.
IsCooldownActive_Never(r) == FALSE

\* _is_cooldown_active of the implementation that is running
IsCooldownActive(r) == IsCooldownActiveOf(impl, r)

\* Mutant of CheckConditions: the weather gate is checked before the sun gate.
CheckConditions_WeatherFirst(r) ==
    IF config.weather_entity /\ config.allowed_weather # {}
       /\ weather = "none"
    THEN [allowed |-> FALSE, reason |-> Reason("Weather unavailable", "", 0)]
    ELSE IF config.weather_entity /\ config.allowed_weather # {}
            /\ weather \notin config.allowed_weather
    THEN [allowed |-> FALSE, reason |-> Reason("Weather is", weather, 0)]
    ELSE IF config.sun_entity /\ sun # "none" /\ sun # "above_horizon"
    THEN [allowed |-> FALSE, reason |-> Reason("Sun is", sun, 0)]
    ELSE IF IsCooldownActive(r) /\ ~r.bypass
    THEN [allowed |-> FALSE,
          reason |-> Reason("Cooldown", "", (Val(r.last_run) + Cooldown) - now)]
    ELSE [allowed |-> TRUE, reason |-> NoReason]

\* Mutant of CheckConditions: a weather entity with no state passes the
\* weather gate, as the sun entity does.
CheckConditions_MissingWeatherPasses(r) ==
    IF config.sun_entity /\ sun # "none" /\ sun # "above_horizon"
    THEN [allowed |-> FALSE, reason |-> Reason("Sun is", sun, 0)]
    ELSE IF config.weather_entity /\ config.allowed_weather # {}
            /\ weather # "none"
            /\ weather \notin config.allowed_weather
    THEN [allowed |-> FALSE, reason |-> Reason("Weather is", weather, 0)]
    ELSE IF IsCooldownActive(r) /\ ~r.bypass
    THEN [allowed |-> FALSE,
          reason |-> Reason("Cooldown", "", (Val(r.last_run) + Cooldown) - now)]
    ELSE [allowed |-> TRUE, reason |-> NoReason]

\* _check_conditions: (is_allowed, reason)
CheckConditions(r) ==
    IF config.sun_entity /\ sun # "none" /\ sun # "above_horizon"
    THEN [allowed |-> FALSE, reason |-> Reason("Sun is", sun, 0)]
    ELSE IF config.weather_entity /\ config.allowed_weather # {}
            /\ weather = "none"
    THEN [allowed |-> FALSE, reason |-> Reason("Weather unavailable", "", 0)]
    ELSE IF config.weather_entity /\ config.allowed_weather # {}
            /\ weather \notin config.allowed_weather
    THEN [allowed |-> FALSE, reason |-> Reason("Weather is", weather, 0)]
    ELSE IF IsCooldownActive(r) /\ ~r.bypass
    THEN [allowed |-> FALSE,
          reason |-> Reason("Cooldown", "", (Val(r.last_run) + Cooldown) - now)]
    ELSE [allowed |-> TRUE, reason |-> NoReason]

\* async_track_time_interval: a new timer, first due one interval from now.
NewTimerId(ts) == CHOOSE i \in 1..(Cardinality(ts) + 1) :
                      \A t \in ts : t.id # i

\* Mutant of EnsureHeartbeatRunning: a timer is scheduled without looking at
\* the handle.
EnsureHeartbeatRunning_Always(r) ==
    [r EXCEPT !.hb = Some(NewTimerId(r.timers)),
              !.timers = @ \cup {[id |-> NewTimerId(r.timers),
                                  due |-> now + HeartbeatInterval,
                                  period |-> HeartbeatInterval]}]

\* _ensure_heartbeat_running
EnsureHeartbeatRunning(r) ==
    IF r.hb # None THEN r
    ELSE [r EXCEPT !.hb = Some(NewTimerId(r.timers)),
                   !.timers = @ \cup {[id |-> NewTimerId(r.timers),
                                       due |-> now + HeartbeatInterval,
                                       period |-> HeartbeatInterval]}]

\* Mutant of EnsureIfEnabled: the heartbeat is never scheduled.
EnsureIfEnabled_Never(r) == r

\* if self._heartbeat_interval.total_seconds() > 0: _ensure_heartbeat_running()
EnsureIfEnabled(r) ==
    IF HeartbeatInterval > 0 THEN EnsureHeartbeatRunning(r) ELSE r

\* _stop_heartbeat
StopHeartbeat(r) ==
    IF r.hb = None THEN r
    ELSE [r EXCEPT !.hb = None,
                   !.timers = {t \in @ : t.id # Val(r.hb)}]

\* Mutant of StartTargetBegin: the bypass ticket is not consumed.
StartTargetBegin_KeepsTicket(r) ==
    [r EXCEPT !.active = TRUE, !.run_start = Some(now)]

\* Mutant of StartTargetBegin: the target flag is not set before the await.
StartTargetBegin_FlagNotSet(r) ==
    [r EXCEPT !.bypass = FALSE, !.run_start = Some(now)]

\* _start_target up to the await of the initial pulse.
StartTargetBegin(r) ==
    [r EXCEPT !.bypass = FALSE, !.active = TRUE, !.run_start = Some(now)]

\* _start_target after the initial pulse.
StartTargetEnd(r) == EnsureIfEnabled(r)

\* _stop_target up to the await of the off-command.
StopTargetBegin(r) == StopHeartbeat(r)

\* Mutant of StopTargetEnd: _target_is_active is left set.
StopTargetEnd_StaysActive(r) ==
    [r EXCEPT !.last_run = Some(now), !.run_start = None]

\* _stop_target after the off-command.
StopTargetEnd(r) ==
    [r EXCEPT !.active = FALSE, !.last_run = Some(now), !.run_start = None]

\* Mutant of AsyncCheckAndUpdate: a blocked evaluation clears the ticket.
AsyncCheckAndUpdate_BlockConsumesTicket(r) ==
    IF ~r.guard
    THEN IF r.active
         THEN Outcome(StopTargetBegin(r), "stop_disarmed", "off")
         ELSE Outcome([r EXCEPT !.reason = GuardDisabled], "done", "none")
    ELSE LET c == CheckConditions(r)
             r1 == [r EXCEPT !.reason = c.reason]
             r2 == [r1 EXCEPT !.bypass = FALSE]
         IN  IF c.allowed
             THEN IF ~r1.active
                  THEN [Outcome(StartTargetBegin(r1), "start", "on")
                            EXCEPT !.ticket = r1.bypass]
                  ELSE Outcome(EnsureIfEnabled(r1), "done", "none")
             ELSE IF r1.active
                  THEN Outcome(StopTargetBegin(r2), "stop_blocked", "off")
                  ELSE Outcome(r2, "done", "none")

\* _async_check_and_update, from its first line to its return or first await.
AsyncCheckAndUpdate(r) ==
    IF ~r.guard
    THEN IF r.active
         THEN Outcome(StopTargetBegin(r), "stop_disarmed", "off")
         ELSE Outcome([r EXCEPT !.reason = GuardDisabled], "done", "none")
    ELSE LET c == CheckConditions(r)
             r1 == [r EXCEPT !.reason = c.reason]
         IN  IF c.allowed
             THEN IF ~r1.active
                  THEN [Outcome(StartTargetBegin(r1), "start", "on")
                            EXCEPT !.ticket = r1.bypass]
                  ELSE Outcome(EnsureIfEnabled(r1), "done", "none")
             ELSE IF r1.active
                  THEN Outcome(StopTargetBegin(r1), "stop_blocked", "off")
                  ELSE Outcome(r1, "done", "none")

\* Mutant of Continue: after its pulse the tick returns without running the
\* decision procedure.
Continue_TickReturnsAfterPulse(pc, r) ==
    CASE pc = "start" ->
            Outcome(EnsureIfEnabled(StartTargetEnd(r)), "done", "none")
      [] pc = "stop_disarmed" ->
            Outcome([StopTargetEnd(r) EXCEPT !.reason = GuardDisabled],
                    "done", "none")
      [] pc = "stop_blocked" -> Outcome(StopTargetEnd(r), "done", "none")
      [] pc = "stop_limit" ->
            [Outcome(StopTargetEnd(r), "done", "none") EXCEPT !.publish = FALSE]
      [] pc = "tick_pulse" -> Outcome(r, "done", "none")

\* The rest of a handler parked at pc, up to its return or next await.
Continue(pc, r) ==
    CASE pc = "start" ->
            \* rest of _start_target, then rest of _async_check_and_update
            Outcome(EnsureIfEnabled(StartTargetEnd(r)), "done", "none")
      [] pc = "stop_disarmed" ->
            Outcome([StopTargetEnd(r) EXCEPT !.reason = GuardDisabled],
                    "done", "none")
      [] pc = "stop_blocked" -> Outcome(StopTargetEnd(r), "done", "none")
      [] pc = "stop_limit" ->
            \* _heartbeat_tick returns after _stop_target: nothing published
            [Outcome(StopTargetEnd(r), "done", "none") EXCEPT !.publish = FALSE]
      [] pc = "tick_pulse" -> AsyncCheckAndUpdate(r)

\* The run-limit test of _heartbeat_tick as each implementation writes it:
\* the coordinator also requires a nonzero run limit.
RunLimitReachedOf(i, r, tick_now) ==
    /\ r.active
    /\ r.run_start # None
    /\ i = "coordinator" => RunLimit > 0
    /\ tick_now - Val(r.run_start) > RunLimit

\* Mutant of RunLimitReached: the comparison is not strict.
RunLimitReached_Inclusive(r, tick_now) ==
    /\ r.active
    /\ r.run_start # None
    /\ impl = "coordinator" => RunLimit > 0
    /\ tick_now - Val(r.run_start) >= RunLimit

\* The run-limit test of the implementation that is running.
RunLimitReached(r, tick_now) == RunLimitReachedOf(impl, r, tick_now)

\* Mutant of HeartbeatTickBody: the run limit is not checked.
HeartbeatTickBody_NoLimit(r, tick_now) ==
    IF r.active
    THEN Outcome(r, "tick_pulse", "on")
    ELSE AsyncCheckAndUpdate(r)

\* _heartbeat_tick(now), from its first line to its return or first await.
HeartbeatTickBody(r, tick_now) ==
    IF RunLimitReached(r, tick_now)
    THEN Outcome(StopTargetBegin(r), "stop_limit", "off")
    ELSE IF r.active
         THEN Outcome(r, "tick_pulse", "on")
         ELSE AsyncCheckAndUpdate(r)

\* The state after a handler's step: the fields it wrote, the handler parked
\* if it reached an await, the command it dispatched.
Apply(out, op, bag) ==
    /\ guard_enabled' = out.r.guard
    /\ target_is_active' = out.r.active
    /\ last_run_time' = out.r.last_run
    /\ run_start_time' = out.r.run_start
    /\ heartbeat' = out.r.hb
    /\ timers' = out.r.timers
    /\ cooldown_bypass' = out.r.bypass
    /\ block_reason' = out.r.reason
    /\ inflight' = IF out.park \in {"done", "raised"} THEN bag
                   ELSE bag (+) SetToBag({out.park})
    /\ last_cmd' = IF out.cmd = "none" THEN last_cmd ELSE out.cmd
    /\ run_ended_at' = IF target_is_active /\ ~out.r.active THEN Some(now)
                       ELSE run_ended_at
    /\ run_by_ticket' = IF out.park = "start"
                        THEN out.ticket /\ IsCooldownActive(out.r)
                        ELSE IF ~out.r.active THEN FALSE
                        ELSE run_by_ticket
    /\ snapshot' = IF out.publish THEN Some(Snapshot(out.r)) ELSE snapshot
    /\ cooldown_at_start' = IF out.r.active /\ out.park # "start"
                            THEN cooldown_at_start ELSE runtime_data.cooldown
    /\ ev' = Event(op, out.park, out.cmd, out.ticket)

\* A new handler begins only while fewer than MaxInFlight are parked.
CanBegin == InFlightCount < MaxInFlight

\* ------------------------------------------------------------------ Init
\* The state after __init__: guard off, target inactive, nothing scheduled.
\* The state of an entity that is not configured is never read.
InitWith(configs, numbers) ==
    /\ impl \in {"switch", "coordinator"}
    /\ phase = "new"
    /\ config \in configs
    /\ runtime_data \in numbers
    /\ now = 0
    /\ sun \in (IF config.sun_entity THEN SunStates ELSE {"none"})
    /\ weather \in (IF config.weather_entity THEN WeatherStates ELSE {"none"})
    /\ guard_enabled = FALSE
    /\ target_is_active = FALSE
    /\ last_run_time = None
    /\ run_start_time = None
    /\ heartbeat = None
    /\ timers = {}
    /\ cooldown_bypass = FALSE
    /\ block_reason = NoReason
    /\ inflight = EmptyBag
    /\ last_cmd = "none"
    /\ run_ended_at = None
    /\ run_by_ticket = FALSE
    /\ snapshot = None
    /\ cooldown_at_start = runtime_data.cooldown
    /\ ev = Event("init", "done", "none", FALSE)

Init == InitWith(Configs, Numbers)

Static == UNCHANGED <<impl, phase, config, runtime_data, now, sun, weather>>

\* The last_run_time attribute of the restored state: absent, or a time
\* before the restart.
RestoredLastRun == {None, Some(0 - 1)}

\* ------------------------------------------------------------- triggers
\* ClimateGuardSwitch.async_added_to_hass: restore the guard and the last
\* run time, subscribe to the gate entities, run the initial check.
AsyncAddedToHass ==
    /\ impl = "switch"
    /\ phase = "new"
    /\ \E has_last_state \in BOOLEAN, on \in BOOLEAN, ts \in RestoredLastRun :
          LET r == IF has_last_state
                   THEN [Cur EXCEPT !.guard = on,
                                    !.last_run = IF ts # None THEN ts ELSE @]
                   ELSE [Cur EXCEPT !.guard = FALSE]
          IN  Apply(AsyncCheckAndUpdate(r), "added", inflight)
    /\ phase' = "added"
    /\ UNCHANGED <<impl, config, runtime_data, now, sun, weather>>

\* ClimateGuardCoordinator.async_init: subscribe, run the initial check.
AsyncInit ==
    /\ impl = "coordinator"
    /\ phase = "new"
    /\ Apply(AsyncCheckAndUpdate(Cur), "added", inflight)
    /\ phase' = "added"
    /\ UNCHANGED <<impl, config, runtime_data, now, sun, weather>>

\* ClimateGuardSwitch.async_turn_on
AsyncTurnOn ==
    /\ impl = "switch"
    /\ phase = "added"
    /\ CanBegin
    /\ Apply(AsyncCheckAndUpdate([Cur EXCEPT !.guard = TRUE]),
             "turn_on", inflight)
    /\ Static

\* ClimateGuardSwitch.async_turn_off
AsyncTurnOff ==
    /\ impl = "switch"
    /\ phase = "added"
    /\ CanBegin
    /\ Apply(AsyncCheckAndUpdate([Cur EXCEPT !.guard = FALSE]),
             "turn_off", inflight)
    /\ Static

\* ClimateGuardCoordinator.set_guard_state: write the flag (and the last run
\* time when given) and create the task that runs _async_check_and_update.
\* hass.async_create_task starts the task eagerly: it runs at once, up to
\* its first await.  last_run is the restored time: it is given while no run
\* of this controller has ended yet.
SetGuardState ==
    /\ impl = "coordinator"
    /\ phase = "added"
    /\ CanBegin
    /\ \E enabled \in BOOLEAN,
          last_run \in (IF last_run_time = None /\ ~target_is_active
                        THEN RestoredLastRun ELSE {None}) :
          LET r == [Cur EXCEPT !.guard = enabled,
                               !.last_run = IF last_run # None THEN last_run
                                            ELSE @]
          IN  Apply(AsyncCheckAndUpdate(r),
                    IF enabled THEN "turn_on" ELSE "turn_off", inflight)
    /\ Static

\* The entities whose state changes are delivered to _on_dependency_change.
Watched ==
    (IF config.sun_entity THEN {"sun"} ELSE {})
    \cup (IF config.weather_entity THEN {"weather"} ELSE {})
    \cup (IF config.climate_entity THEN {"climate"} ELSE {})

\* The event's old_state and new_state, as the temperature attribute of the
\* state; None is a missing state.  Only the thermostat's are read.
OldStates(entity_id) ==
    IF entity_id = "climate" THEN {None, Some(20)} ELSE {Some(20)}
NewStates(entity_id) ==
    IF entity_id = "climate" THEN {None, Some(20), Some(21)} ELSE {Some(20)}

\* Mutant of OnDependencyChangeBody: every notification for the thermostat
\* sets the ticket.
OnDependencyChangeBody_AnyThermostatEvent(r, entity_id, old_state, new_state) ==
    LET r1 == IF config.climate_entity /\ entity_id = "climate"
              THEN [r EXCEPT !.bypass = TRUE]
              ELSE r
    IN  AsyncCheckAndUpdate(r1)

\* _on_dependency_change(event)
OnDependencyChangeBody(r, entity_id, old_state, new_state) ==
    LET r1 == IF /\ config.climate_entity
                 /\ entity_id = "climate"
                 /\ old_state # None
                 /\ new_state # None
                 /\ Val(old_state) # Val(new_state)
              THEN [r EXCEPT !.bypass = TRUE]
              ELSE r
    IN  AsyncCheckAndUpdate(r1)

OnDependencyChange ==
    /\ phase = "added"
    /\ CanBegin
    /\ \E entity_id \in Watched :
       \E old_state \in OldStates(entity_id),
          new_state \in NewStates(entity_id) :
          Apply(OnDependencyChangeBody(Cur, entity_id, old_state, new_state),
                "dependency", inflight)
    /\ Static

\* The interval timer fires: _heartbeat_tick(now).  The timer stays scheduled
\* for one period later.
HeartbeatTick ==
    /\ CanBegin
    /\ \E t \in timers :
          /\ t.due <= now
          /\ LET ts == (timers \ {t}) \cup {[t EXCEPT !.due = @ + t.period]}
             IN  Apply(HeartbeatTickBody([Cur EXCEPT !.timers = ts], now),
                       "tick", inflight)
    /\ Static

\* --------------------------------------------- resuming a parked handler
Resume(pc) ==
    /\ Apply(Continue(pc, Cur), pc, inflight (-) SetToBag({pc}))
    /\ Static

\* the on-command of _start_target has returned
ResumeStart ==
    /\ BagIn("start", inflight)
    /\ Resume("start")

\* the off-command of _stop_target has returned
ResumeStopDisarmed ==
    /\ BagIn("stop_disarmed", inflight)
    /\ Resume("stop_disarmed")

ResumeStopBlocked ==
    /\ BagIn("stop_blocked", inflight)
    /\ Resume("stop_blocked")

ResumeStopLimit ==
    /\ BagIn("stop_limit", inflight)
    /\ Resume("stop_limit")

\* the on-command of _heartbeat_tick has returned
ResumeTickPulse ==
    /\ BagIn("tick_pulse", inflight)
    /\ Resume("tick_pulse")

\* ---------------------------------------------------------- environment
\* A step of the environment: no handler runs.
Quiet ==
    /\ ev' = Event("env", "done", "none", FALSE)
    /\ UNCHANGED <<guard_enabled, target_is_active, last_run_time,
                   run_start_time, heartbeat, timers, cooldown_bypass,
                   block_reason, inflight, last_cmd, run_ended_at,
                   run_by_ticket, snapshot>>
    /\ cooldown_at_start' = IF target_is_active THEN cooldown_at_start
                            ELSE runtime_data'.cooldown

\* The clock advances; a timer that is due fires before it does.
AdvanceTime ==
    /\ now < MaxTime
    /\ \A t \in timers : t.due > now
    /\ now' = now + 1
    /\ UNCHANGED <<impl, phase, config, runtime_data, sun, weather>>
    /\ Quiet

SunChanges ==
    /\ config.sun_entity
    /\ \E s \in SunStates \ {sun} : sun' = s
    /\ UNCHANGED <<impl, phase, config, runtime_data, now, weather>>
    /\ Quiet

\* GuardSwitchNumber.async_set_native_value: the number entity writes its
\* value to the shared runtime data.  The coordinator never reads it.
AsyncSetNativeValue ==
    /\ impl = "switch"
    /\ phase = "added"
    /\ \E key \in {"run_limit", "cooldown", "heartbeat_interval"} :
       \E value \in (CASE key = "run_limit" -> RunLimitValues \ {0}
                       [] key = "cooldown" -> CooldownValues
                       [] key = "heartbeat_interval" -> HeartbeatValues \ {0}) :
          /\ runtime_data[key] # value
          /\ runtime_data' = [runtime_data EXCEPT ![key] = value]
    /\ UNCHANGED <<impl, phase, config, now, sun, weather>>
    /\ Quiet

\* The entity is removed / the config entry is unloaded: the callbacks
\* registered with async_on_remove / async_on_unload run, which unsubscribes
\* the state-change listener.
Teardown ==
    /\ phase = "added"
    /\ phase' = "removed"
    /\ UNCHANGED <<impl, config, runtime_data, now, sun, weather>>
    /\ Quiet

Next ==
    \/ AsyncAddedToHass
    \/ AsyncInit
    \/ AsyncTurnOn
    \/ AsyncTurnOff
    \/ SetGuardState
    \/ OnDependencyChange
    \/ HeartbeatTick
    \/ ResumeStart
    \/ ResumeStopDisarmed
    \/ ResumeStopBlocked
    \/ ResumeStopLimit
    \/ ResumeTickPulse
    \/ AdvanceTime
    \/ SunChanges
    \/ AsyncSetNativeValue

Spec == Init /\ [][Next]_vars

\* The control loop with the entity's removal.
NextTeardown == Next \/ Teardown

SpecTeardown == Init /\ [][NextTeardown]_vars

\* The options form saves new numbers and the update listener reloads the
\* entry: the controller is removed as in Teardown, and async_setup_entry
\* builds the runtime data anew from the saved options (the form accepts any
\* value from zero up).  The removed controller's callbacks that still fire
\* read the new numbers through the config entry.
ReloadEntry ==
    /\ phase = "added"
    /\ phase' = "removed"
    /\ \E n \in Numbers : runtime_data' = n
    /\ UNCHANGED <<impl, config, now, sun, weather>>
    /\ Quiet

\* The control loop with the entry's reload.
NextReload == Next \/ ReloadEntry

SpecReload == Init /\ [][NextReload]_vars

\* -------------------------------------------------- failing service calls
\* What the caller of _pulse_target_on sees when the awaited on-command
\* raises: the except clause logs the error and the coroutine returns.
PulseTargetOn_NoCatch(failed) == IF failed THEN "raised" ELSE "returned"

PulseTargetOn(failed) == "returned"

\* What _stop_target sees when the awaited off-command raises: the call is
\* not wrapped, the exception propagates.
StopDispatch(failed) == IF failed THEN "raised" ELSE "returned"

\* The rest of a handler parked at pc when its awaited service call raises.
\* A propagating exception ends the handler where it is: nothing after the
\* await runs.
ContinueFailed(pc, r) ==
    IF (IF pc \in {"start", "tick_pulse"} THEN PulseTargetOn(TRUE)
        ELSE StopDispatch(TRUE)) = "raised"
    THEN Outcome(r, "raised", "none")
    ELSE Continue(pc, r)

ResumeFailed(pc, op) ==
    /\ Apply(ContinueFailed(pc, Cur), op, inflight (-) SetToBag({pc}))
    /\ Static

\* the on-command of _start_target has raised
FailStart ==
    /\ BagIn("start", inflight)
    /\ ResumeFailed("start", "start_error")

\* the on-command of _heartbeat_tick has raised
FailTickPulse ==
    /\ BagIn("tick_pulse", inflight)
    /\ ResumeFailed("tick_pulse", "tick_pulse_error")

\* the off-command of _stop_target has raised
FailStopDisarmed ==
    /\ BagIn("stop_disarmed", inflight)
    /\ ResumeFailed("stop_disarmed", "stop_disarmed_error")

FailStopBlocked ==
    /\ BagIn("stop_blocked", inflight)
    /\ ResumeFailed("stop_blocked", "stop_blocked_error")

FailStopLimit ==
    /\ BagIn("stop_limit", inflight)
    /\ ResumeFailed("stop_limit", "stop_limit_error")

\* The control loop with service calls that may raise; the numbers stay as
\* configured.
NextFaults ==
    \/ AsyncAddedToHass
    \/ AsyncInit
    \/ AsyncTurnOn
    \/ AsyncTurnOff
    \/ SetGuardState
    \/ OnDependencyChange
    \/ HeartbeatTick
    \/ ResumeStart
    \/ ResumeStopDisarmed
    \/ ResumeStopBlocked
    \/ ResumeStopLimit
    \/ ResumeTickPulse
    \/ AdvanceTime
    \/ SunChanges
    \/ FailStart
    \/ FailTickPulse
    \/ FailStopDisarmed
    \/ FailStopBlocked
    \/ FailStopLimit

\* Faults are followed from a controller with a run limit, a heartbeat and no
\* cooldown configured.
InitFaults ==
    /\ Init
    /\ runtime_data = [run_limit |-> 1, cooldown |-> 0,
                       heartbeat_interval |-> 60]

SpecFaults == InitFaults /\ [][NextFaults]_vars

\* ------------------------------------------------------ the gate evaluator
\* _check_conditions on its own, over every combination of its inputs: which
\* entities are configured, the state of the sun and weather entities ("none"
\* is an entity with no state), the guard, the time of the last run's end,
\* the ticket, the cooldown and the clock.
MaxCooldown == 2

GateConfigs ==
    {Config(s, w, a, c) : s \in BOOLEAN, w \in BOOLEAN,
                          a \in {{}, {"sunny"}}, c \in BOOLEAN}

GateNumbers ==
    [run_limit : {1}, cooldown : 0..MaxCooldown, heartbeat_interval : {60}]

InitGates ==
    /\ impl \in {"switch", "coordinator"}
    /\ phase = "added"
    /\ config \in GateConfigs
    /\ runtime_data \in GateNumbers
    /\ now \in 0..MaxTime
    /\ sun \in (IF config.sun_entity THEN SunStates \cup {"none"}
                ELSE {"none"})
    /\ weather \in (IF config.weather_entity THEN WeatherStates \cup {"none"}
                    ELSE {"none"})
    /\ guard_enabled \in BOOLEAN
    /\ target_is_active = FALSE
    /\ last_run_time \in {None} \cup {Some(t) : t \in 0..now}
    /\ run_start_time = None
    /\ heartbeat = None
    /\ timers = {}
    /\ cooldown_bypass \in BOOLEAN
    /\ block_reason = NoReason
    /\ inflight = EmptyBag
    /\ last_cmd = "none"
    /\ run_ended_at = last_run_time
    /\ run_by_ticket = FALSE
    /\ snapshot = None
    /\ cooldown_at_start = runtime_data.cooldown
    /\ ev = Event("init", "done", "none", FALSE)

\* is_allowed, reason = self._check_conditions(); self._block_reason = reason
CheckConditionsStep ==
    /\ ev.op = "init"
    /\ block_reason' = CheckConditions(Cur).reason
    /\ ev' = Event("check",
                   IF CheckConditions(Cur).allowed THEN "allowed"
                   ELSE "blocked",
                   "none", FALSE)
    /\ UNCHANGED <<guard_enabled, target_is_active, last_run_time,
                   run_start_time, heartbeat, timers, cooldown_bypass,
                   inflight, last_cmd, run_ended_at, run_by_ticket,
                   snapshot, cooldown_at_start>>
    /\ Static

\* What a change notification carries, as far as _on_dependency_change
\* looks at it: the entity, and for the thermostat whether a state is
\* missing and whether the setpoint differs.
NotificationKind(entity_id, old_state, new_state) ==
    IF entity_id # "climate" THEN "notify_" \o entity_id
    ELSE IF old_state = None \/ new_state = None THEN "notify_climate_missing"
    ELSE IF Val(old_state) = Val(new_state) THEN "notify_climate_same"
    ELSE "notify_climate_changed"

\* _on_dependency_change on its own, over every notification and every
\* input of the evaluator; the step records the kind of the notification.
OnDependencyChangeStep ==
    /\ ev.op = "init"
    /\ \E entity_id \in Watched :
       \E old_state \in OldStates(entity_id),
          new_state \in NewStates(entity_id) :
          Apply(OnDependencyChangeBody(Cur, entity_id, old_state, new_state),
                NotificationKind(entity_id, old_state, new_state), inflight)
    /\ Static

NextGates == CheckConditionsStep \/ OnDependencyChangeStep

SpecGates == InitGates /\ [][NextGates]_vars

\* ------------------------------------------- the control loop, all gates
\* The control loop of a controller with the three gate entities configured,
\* constant numbers (nonzero run limit and heartbeat interval), gate entities
\* that change or lose their state with or without a notification, and
\* command dispatches that complete within the clock's unit: the clock
\* advances only while no handler is in flight.
MaxRunTime == 3

RunConfigs == {Config(TRUE, TRUE, {"sunny"}, TRUE)}

RunNumbers ==
    [run_limit : {1}, cooldown : CooldownValues, heartbeat_interval : {60}]

InitRun == InitWith(RunConfigs, RunNumbers)

\* hass.states: the sun entity gets another state, or its state is removed.
SunEntityChanges ==
    /\ config.sun_entity
    /\ \E s \in (SunStates \cup {"none"}) \ {sun} : sun' = s
    /\ UNCHANGED <<impl, phase, config, runtime_data, now, weather>>
    /\ Quiet

\* hass.states: the weather entity gets another state, or its state is
\* removed.
WeatherEntityChanges ==
    /\ config.weather_entity
    /\ \E w \in (WeatherStates \cup {"none"}) \ {weather} : weather' = w
    /\ UNCHANGED <<impl, phase, config, runtime_data, now, sun>>
    /\ Quiet

\* The clock advances while no handler is in flight; a timer that is due
\* fires before it does.
AdvanceClock ==
    /\ now < MaxRunTime
    /\ Quiescent
    /\ \A t \in timers : t.due > now
    /\ now' = now + 1
    /\ UNCHANGED <<impl, phase, config, runtime_data, sun, weather>>
    /\ Quiet

NextRun ==
    \/ AsyncAddedToHass
    \/ AsyncInit
    \/ AsyncTurnOn
    \/ AsyncTurnOff
    \/ SetGuardState
    \/ OnDependencyChange
    \/ HeartbeatTick
    \/ ResumeStart
    \/ ResumeStopDisarmed
    \/ ResumeStopBlocked
    \/ ResumeStopLimit
    \/ ResumeTickPulse
    \/ SunEntityChanges
    \/ WeatherEntityChanges
    \/ AdvanceClock

SpecRun == InitRun /\ [][NextRun]_vars

\* ------------------------------------------------ handlers run to their end
\* A handler run to its return with no other handler in between: the
\* coroutine's awaits return at once.
Complete(out) ==
    IF out.park = "done" THEN out ELSE Continue(out.park, out.r)

\* async_turn_on, run to its return.
Arm(r) == Complete(AsyncCheckAndUpdate([r EXCEPT !.guard = TRUE]))

\* async_turn_off, run to its return.
Disarm(r) == Complete(AsyncCheckAndUpdate([r EXCEPT !.guard = FALSE]))

\* ================================================================ claims
\* The triggers whose handlers run the decision procedure.
Triggers == {"added", "turn_on", "turn_off", "dependency", "tick"}

\* ---------------------------------------------------------------- C1
\* C1: disarm forces a stop.  A disarm called with the target active
\* performs Stop (it is suspended in _stop_target with the off-command
\* dispatched, or it has returned with the target inactive and the reason
\* "Guard Disabled"); when the Stop of a disabled guard completes the target
\* is inactive and the reason is "Guard Disabled"; and whenever no handler is
\* in flight, a disabled guard has an inactive target.
C1_DisarmForcesStop ==
    /\ (Quiescent /\ ~guard_enabled) => ~target_is_active
    /\ ev.op = "turn_off" =>
          \/ ev.park = "stop_disarmed" /\ ev.cmd = "off"
          \/ ev.park = "done" /\ ~target_is_active
                /\ block_reason = GuardDisabled
    /\ ev.op = "stop_disarmed" =>
          ev.park = "done" /\ ~target_is_active /\ block_reason = GuardDisabled

\* A disarm's Stop has just completed.
C1_Witness ==
    /\ ev.op = "stop_disarmed"
    /\ Quiescent
    /\ ~guard_enabled
    /\ ~target_is_active
    /\ last_cmd = "off"
    /\ block_reason = GuardDisabled

\* ---------------------------------------------------------------- C2
\* C2: the cooldown is a minimum quiet period.  Every Start performed while
\* the cooldown is nonzero and a run has ended before comes at least the
\* cooldown after that run's end, or was performed by an evaluation that saw
\* the bypass ticket set.
C2_CooldownQuietPeriod ==
    (ev.park = "start" /\ Cooldown > 0 /\ run_ended_at # None) =>
        \/ now - Val(run_ended_at) >= Cooldown
        \/ ev.ticket

\* A Start after a run has ended, once the cooldown has elapsed, without the
\* ticket.
C2_Witness ==
    /\ ev.park = "start"
    /\ Cooldown > 0
    /\ run_ended_at # None
    /\ now - Val(run_ended_at) >= Cooldown
    /\ ~ev.ticket

\* ---------------------------------------------------------------- C3
\* C3: a run limit of zero means unlimited.  With the run limit 0, no
\* heartbeat tick stops the target on account of the run limit.
C3_ZeroRunLimitIsUnlimited ==
    (ev.op = "tick" /\ RunLimit = 0) => ev.park # "stop_limit"

\* ---------------------------------------------------------------- C4
\* C4: end to end.  With no gate configured, cooldown 0, run limit 0 and a
\* nonzero heartbeat interval, an arm that finds the target inactive
\* dispatches one on-command, and every heartbeat tick of the armed
\* controller dispatches one on-command, never an off-command, and leaves
\* the target active.
C4_Scenario ==
    /\ config = Config(FALSE, FALSE, {}, FALSE)
    /\ runtime_data = [run_limit |-> 0, cooldown |-> 0,
                       heartbeat_interval |-> 60]
    /\ guard_enabled

C4_EndToEnd ==
    C4_Scenario =>
        /\ (ev.op = "turn_on" /\ ev.park = "start") =>
              ev.cmd = "on" /\ target_is_active
        /\ ev.op = "tick" => ev.cmd = "on" /\ target_is_active

\* ---------------------------------------------------------------- C5
\* C5: run-limit enforcement.  A tick that finds the target active with a
\* nonzero run limit exceeded performs Stop: it dispatches the off-command
\* and no on-command; when that Stop completes the target is inactive, the
\* last run ended now, the run start is cleared, nothing more is dispatched
\* and the decision procedure is not run (the handler returns, the block
\* reason is as it was).
C5_RunLimitEnforced ==
    /\ [](/\ ( /\ ev.op = "tick"
               /\ RunLimit > 0
               /\ target_is_active
               /\ run_start_time # None
               /\ now - Val(run_start_time) > RunLimit )
             => (ev.park = "stop_limit" /\ ev.cmd = "off")
          /\ ev.op = "stop_limit" =>
                /\ ev.park = "done"
                /\ ev.cmd = "none"
                /\ ~target_is_active
                /\ last_run_time = Some(now)
                /\ run_start_time = None)
    /\ [][ev'.op = "stop_limit" => block_reason' = block_reason]_vars

\* A run-limit Stop has just completed with the guard armed and every gate
\* passing.
C5_Witness ==
    /\ ev.op = "stop_limit"
    /\ Quiescent
    /\ RunLimit > 0
    /\ guard_enabled
    /\ CheckConditions([Cur EXCEPT !.last_run = None]).allowed
    /\ ~target_is_active
    /\ last_cmd = "off"

\* ---------------------------------------------------------------- C6
\* C6: whenever no handler is in flight, an inactive target has no run start
\* and no heartbeat timer scheduled.
C6_InactiveHasNoRunNoTimer ==
    (Quiescent /\ ~target_is_active) =>
        (run_start_time = None /\ heartbeat = None /\ timers = {})

\* ---------------------------------------------------------------- C7
\* C7 as claimed: whenever no handler is in flight, an active target has a
\* run start and, when the heartbeat interval is nonzero, a heartbeat timer.
C7_ActiveHasRunAndTimer ==
    (Quiescent /\ target_is_active) =>
        /\ run_start_time # None
        /\ HeartbeatInterval > 0 => heartbeat # None

\* C7 as amended: whenever no handler is in flight, an active target has a
\* run start; and in every such state that a handler's return has produced
\* (no number has been written since the last evaluation), a nonzero
\* heartbeat interval has its timer scheduled.
C7_ActiveHasRunAndTimerAtReturn ==
    (Quiescent /\ target_is_active) =>
        /\ run_start_time # None
        /\ (ev.op # "env" /\ HeartbeatInterval > 0) =>
              (heartbeat # None /\ timers # {})

\* A Start has just completed with a nonzero heartbeat interval.
C7_Witness ==
    /\ Quiescent
    /\ target_is_active
    /\ ev.op = "start"
    /\ HeartbeatInterval > 0
    /\ heartbeat # None
    /\ run_start_time # None

\* ---------------------------------------------------------------- C8
\* C8: at most one evaluation of the decision procedure is in flight.  A
\* handler that has just begun is the only one in flight: no other handler
\* is suspended at an await.
C8_OneEvaluationInFlight ==
    ev.op \in Triggers =>
        inflight = (IF ev.park = "done" THEN EmptyBag
                    ELSE SetToBag({ev.park}))

\* ---------------------------------------------------------------- C9
\* C9: whenever no handler is in flight and the target is inactive, the last
\* command dispatched to the target, if any, is the off-command.
C9_InactiveLastCommandIsOff ==
    (Quiescent /\ ~target_is_active) => last_cmd \in {"none", "off"}

\* ---------------------------------------------------------------- C10
\* C10: teardown cancels the heartbeat.  Once the controller is removed no
\* heartbeat timer is scheduled and no heartbeat tick fires.
C10_TeardownCancelsHeartbeat ==
    phase = "removed" => (timers = {} /\ ev.op # "tick")

\* ---------------------------------------------------------------- C11
\* C11: in every reachable state the bypass ticket is set only while the
\* guard is armed.
C11_TicketOnlyWhileArmed ==
    cooldown_bypass => guard_enabled

\* ---------------------------------------------------------------- C12
\* C12: every Start (the target goes from inactive to active) leaves the
\* bypass ticket cleared, whatever allowed the Start.
C12_StartConsumesTicket ==
    [][(~target_is_active /\ target_is_active') => ~cooldown_bypass']_vars

\* A Start that held the ticket while the cooldown was still counting.
C12_Witness ==
    /\ ev.park = "start"
    /\ ev.ticket
    /\ target_is_active
    /\ IsCooldownActive(Cur)
    /\ ~cooldown_bypass

\* ---------------------------------------------------------------- C13
\* C13: at most one heartbeat timer is scheduled, and it is the one the
\* handle names; a completed Start with a nonzero interval has exactly one;
\* a Stop, once it has reached its off-command, has cancelled the timer and
\* cleared the handle.
C13_OneHeartbeatTimer ==
    /\ Cardinality(timers) <= 1
    /\ heartbeat = None <=> timers = {}
    /\ heartbeat # None => \A t \in timers : t.id = Val(heartbeat)
    /\ (ev.op = "start" /\ HeartbeatInterval > 0) => Cardinality(timers) = 1
    /\ ev.park \in {"stop_disarmed", "stop_blocked", "stop_limit"} =>
          (heartbeat = None /\ timers = {})

\* A repeated arm of a running controller whose heartbeat is scheduled.
C13_Witness ==
    /\ ev.op = "turn_on"
    /\ ev.park = "done"
    /\ target_is_active
    /\ heartbeat # None
    /\ Cardinality(timers) = 1

\* ---------------------------------------------------------------- C14
\* C14: arm and disarm are idempotent.  From every reachable state with no
\* handler in flight, a second arm right after an arm (no event and no time
\* in between) dispatches no command and leaves the runtime state as the
\* first arm left it; the same for disarm.
C14_ArmDisarmIdempotent ==
    (Quiescent /\ phase = "added") =>
        /\ Arm(Arm(Cur).r).r = Arm(Cur).r
        /\ AsyncCheckAndUpdate([Arm(Cur).r EXCEPT !.guard = TRUE]).cmd = "none"
        /\ Disarm(Disarm(Cur).r).r = Disarm(Cur).r
        /\ AsyncCheckAndUpdate([Disarm(Cur).r EXCEPT !.guard = FALSE]).cmd
              = "none"

\* ---------------------------------------------------------------- C15
\* The sun gate blocks: the sun entity is configured, has a state, and the
\* state is not "above_horizon".
SunBlocks ==
    config.sun_entity /\ sun \notin {"none", "above_horizon"}

\* The weather gate blocks: the weather entity and a nonempty allow-set are
\* configured, and the entity has no state or a state outside the set.
WeatherBlocks ==
    /\ config.weather_entity
    /\ config.allowed_weather # {}
    /\ weather = "none" \/ weather \notin config.allowed_weather

\* C15: gate ordering.  For every combination of gate inputs, when the sun
\* gate blocks the evaluator reports the sun reason, whatever the weather and
\* the cooldown; when the sun gate passes and the weather gate blocks it
\* reports the weather reason, whatever the cooldown.
C15_GateOrdering ==
    ev.op = "check" =>
        /\ SunBlocks =>
              (ev.park = "blocked" /\ block_reason = Reason("Sun is", sun, 0))
        /\ (~SunBlocks /\ WeatherBlocks) =>
              /\ ev.park = "blocked"
              /\ block_reason =
                    (IF weather = "none"
                     THEN Reason("Weather unavailable", "", 0)
                     ELSE Reason("Weather is", weather, 0))

\* Every gate fails at once and the sun reason is reported.
C15_Witness ==
    /\ ev.op = "check"
    /\ SunBlocks
    /\ WeatherBlocks
    /\ IsCooldownActive(Cur)
    /\ ~cooldown_bypass
    /\ block_reason = Reason("Sun is", "below_horizon", 0)

\* ---------------------------------------------------------------- C16
\* The cooldown is counting: it is nonzero, a run has ended, and less than
\* the cooldown has passed since.
CooldownCounting ==
    /\ Cooldown > 0
    /\ last_run_time # None
    /\ now - Val(last_run_time) < Cooldown

\* C16: cooldown arithmetic.  The cooldown is active exactly when it is
\* counting (strict comparison).  With the sun and weather gates passing,
\* the evaluator blocks with the reason "Cooldown" and the remaining time
\* exactly when the cooldown is counting and no ticket is held; it never
\* blocks on cooldown at now = T + C or later, with C = 0, or with no run
\* ended.
C16_CooldownArithmetic ==
    ev.op = "check" =>
        /\ IsCooldownActive(Cur) <=> CooldownCounting
        /\ block_reason.text = "Cooldown" =>
              /\ ev.park = "blocked"
              /\ CooldownCounting
              /\ ~cooldown_bypass
              /\ block_reason.rem = (Val(last_run_time) + Cooldown) - now
        /\ (~SunBlocks /\ ~WeatherBlocks) =>
              IF CooldownCounting /\ ~cooldown_bypass
              THEN block_reason.text = "Cooldown" /\ ev.park = "blocked"
              ELSE block_reason = NoReason /\ ev.park = "allowed"

\* The last instant the cooldown blocks: one minute before T + C, with a
\* cooldown longer than a minute.
C16_Witness ==
    /\ ev.op = "check"
    /\ Cooldown > 1
    /\ last_run_time # None
    /\ now = (Val(last_run_time) + Cooldown) - 1
    /\ ~cooldown_bypass
    /\ block_reason = Reason("Cooldown", "", 1)

\* The first instant the cooldown no longer blocks: now = T + C.
C16_WitnessExpired ==
    /\ ev.op = "check"
    /\ Cooldown > 0
    /\ last_run_time # None
    /\ now = Val(last_run_time) + Cooldown
    /\ ~cooldown_bypass
    /\ ev.park = "allowed"

\* ---------------------------------------------------------------- C17
\* C17: a raising on-command is swallowed.  The handler does not end by the
\* exception.  In Start, the run stays as it was (target flag and run start
\* untouched) and the heartbeat is scheduled when the interval is nonzero.
\* In a tick, the handler goes on to the decision procedure, which keeps an
\* armed, allowed run active with its heartbeat.  And every tick that finds
\* the target active within its run limit dispatches the on-command again.
C17_OnCommandFailureSwallowed ==
    /\ [](/\ ev.op \in {"start_error", "tick_pulse_error"} =>
                ev.park # "raised"
          /\ (ev.op = "tick" /\ target_is_active /\ ev.park # "stop_limit")
                => ev.cmd = "on")
    /\ [][ev'.op = "start_error" =>
             /\ target_is_active' = target_is_active
             /\ run_start_time' = run_start_time
             /\ HeartbeatInterval > 0 => (heartbeat' # None /\ timers' # {})
         ]_vars
    /\ [][( /\ ev'.op = "tick_pulse_error"
            /\ target_is_active
            /\ guard_enabled
            /\ CheckConditions(Cur).allowed ) =>
             /\ ev'.park = "done"
             /\ target_is_active'
             /\ run_start_time' = run_start_time
             /\ HeartbeatInterval > 0 => (heartbeat' # None /\ timers' # {})
         ]_vars

\* The on-command of a Start has raised and the run goes on with its
\* heartbeat.
C17_Witness ==
    /\ ev.op = "start_error"
    /\ ev.park = "done"
    /\ Quiescent
    /\ target_is_active
    /\ run_start_time # None
    /\ heartbeat # None

\* ---------------------------------------------------------------- C18
\* C18: a raising off-command does not propagate.  The Stop still completes:
\* the handler returns, the target is inactive, the last run ended now and
\* the run start is cleared.
C18_OffCommandFailureContained ==
    ev.op \in {"stop_disarmed_error", "stop_blocked_error",
               "stop_limit_error"} =>
        /\ ev.park = "done"
        /\ ~target_is_active
        /\ last_run_time = Some(now)
        /\ run_start_time = None

\* ---------------------------------------------------------------- C19
\* C19: the published status tracks the runtime state.  When the handler of
\* a trigger has returned, the status last published has the guard flag, the
\* target flag and the block reason the controller has now.
C19_SnapshotTracksState ==
    (ev.op # "env" /\ ev.op # "init" /\ ev.park = "done") =>
        snapshot = Some(Snapshot(Cur))

\* ---------------------------------------------------------------- C20
\* C20: a run that began on the bypass ticket while the cooldown was still
\* counting is not stopped by the cooldown.  Every later evaluation during
\* the run (a repeated arm, a dependency change, the evaluation that ends a
\* heartbeat tick) with the guard armed and the sun and weather gates passing
\* dispatches no off-command and leaves the target active.
C20_TicketRunSurvivesCooldown ==
    ( /\ run_by_ticket
      /\ ev.op \in {"turn_on", "dependency", "tick_pulse"}
      /\ ev.park # "start"
      /\ guard_enabled
      /\ ~SunBlocks
      /\ ~WeatherBlocks ) =>
        /\ ev.cmd # "off"
        /\ ev.park = "done"
        /\ target_is_active

\* ---------------------------------------------------------------- C21
\* C21: automatic restart.  With the guard armed and the sun and weather
\* gates passing, a target that was stopped (by the run limit on a tick or by
\* a blocked evaluation) becomes active again once the cooldown has elapsed,
\* with no arm call and no change notification.  The only things that act
\* without an external trigger are a handler in flight and a scheduled
\* timer, so the restart requires that when such a Stop has completed with
\* the guard armed, the gates passing and nothing else in flight, the
\* controller still holds a timer.
C21_StoppedArmedKeepsTimer ==
    ( /\ ev.op \in {"stop_limit", "stop_blocked"}
      /\ phase = "added"
      /\ Quiescent
      /\ guard_enabled
      /\ ~target_is_active
      /\ ~SunBlocks
      /\ ~WeatherBlocks ) => timers # {}

C22_WitnessAtLimit ==
    /\ ev.op = "tick"
    /\ ev.park = "tick_pulse"
    /\ now - Val(run_start_time) = RunLimit

\* ---------------------------------------------------------------- C23
\* The reason the evaluator gives when the sun or the weather gate blocks.
GateReason ==
    IF SunBlocks THEN Reason("Sun is", sun, 0)
    ELSE IF weather = "none" THEN Reason("Weather unavailable", "", 0)
    ELSE Reason("Weather is", weather, 0)

\* C23: self-heal from a missed notification.  A tick that finds the target
\* active within its run limit re-issues one on-command; when the sun or the
\* weather gate blocks at that tick (whether or not a notification was
\* delivered), the decision procedure the tick then runs performs Stop: the
\* off-command is dispatched, the heartbeat timer is cancelled and the block
\* reason is that gate's; when that Stop completes the target is inactive.
C23_TickSelfHeals ==
    /\ (ev.op = "tick" /\ ev.park = "tick_pulse") => ev.cmd = "on"
    /\ ( /\ ev.op = "tick_pulse"
         /\ guard_enabled
         /\ target_is_active
         /\ SunBlocks \/ WeatherBlocks ) =>
            /\ ev.park = "stop_blocked"
            /\ ev.cmd = "off"
            /\ heartbeat = None
            /\ block_reason = GateReason
    /\ ev.op = "stop_blocked" => ~target_is_active

\* A tick's evaluation stops the target for the sun gate.
C23_Witness ==
    /\ ev.op = "tick_pulse"
    /\ ev.park = "stop_blocked"
    /\ guard_enabled
    /\ sun = "below_horizon"
    /\ block_reason = Reason("Sun is", "below_horizon", 0)
    /\ timers = {}

\* A tick's evaluation stops the target for the weather gate.
C23_WitnessWeather ==
    /\ ev.op = "tick_pulse"
    /\ ev.park = "stop_blocked"
    /\ guard_enabled
    /\ weather = "rainy"
    /\ block_reason = Reason("Weather is", "rainy", 0)
    /\ timers = {}

\* The Stop begun by a tick's evaluation has completed: target inactive, no
\* timer, last command off, reason the gate's.
C23_WitnessEnd ==
    /\ ev.op = "stop_blocked"
    /\ Quiescent
    /\ guard_enabled
    /\ ~target_is_active
    /\ heartbeat = None
    /\ timers = {}
    /\ last_cmd = "off"
    /\ SunBlocks
    /\ block_reason = GateReason

\* ---------------------------------------------------------------- C24
\* C24: runtime changes of the numbers are not retroactive.  A run that is
\* in progress when a number changes is not stopped on account of the new
\* value: when an evaluation stops a run for the cooldown, the cooldown is
\* also counting under the cooldown number that was in force when that run
\* started.
C24_RunNotStoppedByNewValue ==
    ( /\ ev.park = "stop_blocked"
      /\ block_reason.text = "Cooldown" ) =>
        /\ last_run_time # None
        /\ now - Val(last_run_time) < Minutes(cooldown_at_start)

\* The part of C24 about the write itself: a step that changes a number of
\* a live controller dispatches no command, changes no field of the
\* controller and leaves every scheduled timer with its period.
C24_SettingIsInert ==
    [][(runtime_data' # runtime_data /\ phase' = "added") =>
          /\ ev'.cmd = "none"
          /\ UNCHANGED <<guard_enabled, target_is_active, last_run_time,
                         run_start_time, heartbeat, timers, cooldown_bypass,
                         block_reason, inflight, last_cmd>>]_vars

\* ---------------------------------------------------------------- C25
\* C25: dependency-change handling.  A notification sets the ticket only
\* when it is for the thermostat-bypass entity with both states present and
\* differing setpoints; every other notification leaves the ticket as it
\* was.  In every case the decision procedure runs afterwards, on the ticket
\* as the notification left it: a disarmed controller reports "Guard
\* Disabled"; an armed one takes the evaluator's reason, performs Start
\* exactly when the evaluator allows, and a Start consumes the ticket.
C25_TicketOnSetpointChangeOnly ==
    [][ev'.op \in {"notify_sun", "notify_weather", "notify_climate_missing",
                   "notify_climate_same", "notify_climate_changed"} =>
          LET ticket == ev'.op = "notify_climate_changed" \/ cooldown_bypass
              c == CheckConditions([Cur EXCEPT !.bypass = ticket])
          IN  /\ ev'.park = "start" => (~cooldown_bypass' /\ ev'.ticket = ticket)
              /\ ev'.park # "start" => cooldown_bypass' = ticket
              /\ IF guard_enabled
                 THEN /\ block_reason' = c.reason
                      /\ ev'.park = "start" <=> c.allowed
                 ELSE /\ block_reason' = GuardDisabled
                      /\ ev'.park = "done"]_vars

\* A setpoint change arrives while the sun gate blocks: the ticket is set and
\* the evaluation, blocked, leaves it set.
C25_Witness ==
    /\ ev.op = "notify_climate_changed"
    /\ ev.park = "done"
    /\ guard_enabled
    /\ SunBlocks
    /\ block_reason = GateReason
    /\ cooldown_bypass

\* A thermostat notification with an unchanged setpoint arrives during the
\* cooldown: no ticket, the evaluation is blocked by the cooldown.
C25_WitnessSame ==
    /\ ev.op = "notify_climate_same"
    /\ ev.park = "done"
    /\ guard_enabled
    /\ block_reason.text = "Cooldown"
    /\ ~cooldown_bypass

\* ---------------------------------------------------------------- C26
\* C26: gate evaluation never consumes the bypass ticket.  A step that
\* clears a set ticket is a step that performs Start; in particular an
\* evaluation that ends Blocked by the sun or the weather gate while the
\* ticket is set leaves it set, however many of them there are.
C26_OnlyStartConsumesTicket ==
    [][(cooldown_bypass /\ ~cooldown_bypass') =>
          /\ ~target_is_active
          /\ target_is_active'
          /\ ev'.park = "start"]_vars

\* An arm call's evaluation is blocked by the weather gate and the ticket,
\* set before it, is still set.
C26_Witness ==
    /\ ev.op = "turn_on"
    /\ ev.park = "done"
    /\ guard_enabled
    /\ ~target_is_active
    /\ ~SunBlocks
    /\ WeatherBlocks
    /\ block_reason = GateReason
    /\ cooldown_bypass

\* ---------------------------------------------------------------- C27
\* C27: no ticket during a run.  In every state where no handler is in
\* flight and the target is active, the bypass ticket is not set.
C27_NoTicketWhileActive ==
    (Quiescent /\ target_is_active) => ~cooldown_bypass

\* ---------------------------------------------------------------- C28
\* A handler has just run the gate evaluator with the guard armed.
Evaluated ==
    /\ guard_enabled
    /\ \/ ev.op \in {"added", "turn_on", "dependency", "tick_pulse"}
       \/ ev.op = "tick" /\ ev.park \notin {"tick_pulse", "stop_limit"}

\* C28: entities without a state are handled asymmetrically.  An evaluation
\* that cannot read the configured weather entity is Blocked("Weather
\* unavailable") when the sun gate passes, and performs Stop when the target
\* is active.  An evaluation that cannot read the configured sun entity is
\* not blocked by the sun gate: when the weather gate passes too, the result
\* is allowed or blocked by the cooldown only, and an allowed result leaves
\* the target active with no off-command.
C28_UnavailableAsymmetry ==
    /\ ( /\ Evaluated
         /\ config.weather_entity
         /\ config.allowed_weather # {}
         /\ weather = "none"
         /\ ~SunBlocks ) =>
            /\ block_reason = Reason("Weather unavailable", "", 0)
            /\ ev.park \in {"done", "stop_blocked"}
            /\ target_is_active => (ev.park = "stop_blocked" /\ ev.cmd = "off")
    /\ ( /\ Evaluated
         /\ config.sun_entity
         /\ sun = "none"
         /\ ~WeatherBlocks ) =>
            /\ block_reason.text \in {"None", "Cooldown"}
            /\ block_reason = NoReason => (target_is_active /\ ev.cmd # "off")

\* The weather entity lost its state during a run and the tick's evaluation
\* stops the target.
C28_Witness ==
    /\ ev.op = "tick_pulse"
    /\ ev.park = "stop_blocked"
    /\ ev.cmd = "off"
    /\ guard_enabled
    /\ target_is_active
    /\ weather = "none"
    /\ block_reason = Reason("Weather unavailable", "", 0)

\* The sun entity lost its state during a run and the tick's evaluation
\* leaves the target running.
C28_WitnessSun ==
    /\ ev.op = "tick_pulse"
    /\ ev.park = "done"
    /\ guard_enabled
    /\ target_is_active
    /\ sun = "none"
    /\ block_reason = NoReason
    /\ timers # {}

C29_ZeroIntervalNoTimer ==
    HeartbeatInterval = 0 =>
        /\ timers = {}
        /\ heartbeat = None
        /\ ev.op \notin {"tick", "tick_pulse"}

\* ---------------------------------------------------------------- C30
\* C30: the two implementations are equivalent.  Run side by side on the
\* same triggers and the same configuration they dispatch the same commands
\* and reach the same state.  The two loops are the same text except for the
\* run-limit test of the tick and the cooldown test of the evaluator, so they
\* stay in step exactly when, at every tick either of them handles, both
\* run-limit tests give the same answer, and at every state both cooldown
\* tests give the same answer.
C30_ImplementationsAgree ==
    /\ ev.op = "tick" =>
          (RunLimitReachedOf("switch", Cur, now)
              <=> RunLimitReachedOf("coordinator", Cur, now))
    /\ IsCooldownActiveOf("switch", Cur)
          <=> IsCooldownActiveOf("coordinator", Cur)

\* ---------------------------------------------------------------- C31
\* C31: no double start under interleaving.  Start sets the target flag
\* before it awaits the on-command, so a handler that begins while a Start is
\* suspended there finds the target active and does not perform Start.  A
\* step performs Start only from an inactive target; it sets the flag, sets
\* the run start to now and dispatches the one initial on-command; every
\* inactive-to-active transition is such a step; and the rest of Start, after
\* the await, neither sets the run start again nor dispatches anything.
C31_NoDoubleStart ==
    [][/\ ev'.park = "start" =>
             /\ ~target_is_active
             /\ target_is_active'
             /\ run_start_time' = Some(now)
             /\ ev'.cmd = "on"
       /\ (~target_is_active /\ target_is_active') =>
             (ev'.park = "start" /\ ev'.cmd = "on")
       /\ ev'.op = "start" =>
             (run_start_time' = run_start_time /\ ev'.cmd = "none")]_vars

\* A second trigger's handler has run to its end while a Start is suspended
\* at its on-command: it evaluated Allowed, found the target active and
\* dispatched nothing.
C31_Witness ==
    /\ ev.op \in {"turn_on", "dependency"}
    /\ ev.park = "done"
    /\ ev.cmd = "none"
    /\ guard_enabled
    /\ block_reason = NoReason
    /\ target_is_active
    /\ BagIn("start", inflight)
    /\ run_start_time = Some(now)

====
